---- MODULE Spec2Model ----
(***************************************************************************)
(* Model of server/index.ts, the Express API of the B3 Penny Stock         *)
(* Analyzer: the snapshot readers, the options resolver, the manual and    *)
(* the scheduled update triggers and the exec completion callbacks.        *)
(*                                                                         *)
(* Node runs every handler and callback to completion on one thread, so    *)
(* each handler is one action.  The update script is an external process:  *)
(* it rewrites the two snapshot files while it runs and ends with one of   *)
(* three outcomes.                                                         *)
(***************************************************************************)
EXTENDS Integers, Sequences, FiniteSets, TLC

VARIABLES
    updateInProgress,  \* the module-level flag of index.ts:58
    procs,             \* child processes started by exec and not yet ended
    launched,          \* number of exec calls made so far
    accepted,          \* number of triggers accepted so far
    stocksFile,        \* public/stocks.json
    cotahistFile,      \* data/cotahist.json
    console,           \* the last line written to the console
    last               \* the last handler, tick or callback that ran, with its output

vars == <<updateInProgress, procs, launched, accepted, stocksFile, cotahistFile,
          console, last>>

-----------------------------------------------------------------------------
(* Bounds *)

\* Triggers accepted in one behaviour.
MaxLaunches == 2

\* Records in a generated derivatives snapshot.
MaxOpts == 2

-----------------------------------------------------------------------------
(* JavaScript values *)

\* An optional property: None is undefined/null, Some(v) a present value.
None == <<>>
Some(v) == <<v>>

\* a ?? b
Coalesce(a, b) == IF a = None THEN b ELSE a

\* Strings that the code transforms are tuples of one-character strings.
ToUpperChar(c) ==
    CASE c = "a" -> "A"
      [] c = "b" -> "B"
      [] OTHER -> c

\* String.prototype.toUpperCase
toUpperCase(s) == [i \in 1..Len(s) |-> ToUpperChar(s[i])]

\* String.prototype.slice(0, n)
slice0(s, n) == IF Len(s) <= n THEN s ELSE SubSeq(s, 1, n)

\* An ISO date "YYYY-MM-DD" is the tuple <<YYYY, MM, DD>>; the order of the
\* zero-padded strings is the lexicographic order of the tuples.
StrLess(a, b) ==
    \/ a[1] < b[1]
    \/ a[1] = b[1] /\ a[2] < b[2]
    \/ a[1] = b[1] /\ a[2] = b[2] /\ a[3] < b[3]

\* a >= b on date strings; undefined >= "..." is false.
StrGeq(a, b) == a # None /\ ~StrLess(a[1], b)

-----------------------------------------------------------------------------
(* Files and JSON *)

\* A file is absent, or holds text that is garbage or the JSON of a value.
NoFile == [exists |-> FALSE]
Garbage == [exists |-> TRUE, text |-> [t |-> "garbage"]]
JsonFile(v) == [exists |-> TRUE, text |-> v]

Null == [t |-> "null"]
Threw == [t |-> "throw"]
Obj(fields) == [t |-> "object", v |-> fields]
Arr(elems) == [t |-> "array", v |-> elems]

\* stocks.json payloads: the metadata GET /api/status reads.
FullStocks ==
    Obj([atualizadoEm |-> Some("2026-01-02T13:00"), dataReferencia |-> Some("2026-01-02"),
         fonte |-> Some("COTAHIST"), totalAcoes |-> Some(2)])
BareStocks ==
    Obj([atualizadoEm |-> None, dataReferencia |-> None, fonte |-> None, totalAcoes |-> None])

StocksFiles == {NoFile, Garbage, JsonFile(Null), JsonFile(FullStocks), JsonFile(BareStocks)}

existsSync(f) == f.exists

\* JSON.parse(readFileSync(f)): throws on text that is no JSON.
JSONparse(f) == IF f.text.t = "garbage" THEN Threw ELSE f.text

\* if (!data): null is the falsy JSON value.
Falsy(v) == v.t = "null"

\* Variant: the parse is not wrapped in try/catch.
readStocksNoCatch(f) ==
    IF ~existsSync(f) THEN Null ELSE JSONparse(f)
readStocks(f) ==
    IF ~existsSync(f) THEN Null
    ELSE LET r == JSONparse(f) IN IF r = Threw THEN Null ELSE r

\* Express answers 500 when a handler throws; otherwise the handler's response.
Express(r) == IF r = Threw THEN [status |-> 500, body |-> [error |-> "Internal Server Error"]] ELSE r

Json(code, b) == [status |-> code, body |-> b]

-----------------------------------------------------------------------------
(* GET /api/stocks *)

stocksHandler ==
    LET data == readStocks(stocksFile) IN
    IF data = Threw THEN Threw
    ELSE IF Falsy(data) THEN Json(404, [error |-> "Dados nao disponiveis"])
    ELSE Json(200, data)

(* GET /api/status *)

\* Variant: the unavailable answer carries a constant flag.
statusHandlerStale ==
    LET data == readStocks(stocksFile) IN
    IF data = Threw THEN Threw
    ELSE IF Falsy(data)
         THEN Json(200, [disponivel |-> FALSE, updateInProgress |-> FALSE])
    ELSE Json(200, [disponivel |-> TRUE,
                    atualizadoEm |-> Coalesce(data.v.atualizadoEm, None),
                    dataReferencia |-> Coalesce(data.v.dataReferencia, None),
                    fonte |-> Coalesce(data.v.fonte, None),
                    totalAcoes |-> Coalesce(data.v.totalAcoes, Some(0)),
                    updateInProgress |-> updateInProgress])

statusHandler ==
    LET data == readStocks(stocksFile) IN
    IF data = Threw THEN Threw
    ELSE IF Falsy(data)
         THEN Json(200, [disponivel |-> FALSE, updateInProgress |-> updateInProgress])
    ELSE Json(200, [disponivel |-> TRUE,
                    atualizadoEm |-> Coalesce(data.v.atualizadoEm, None),
                    dataReferencia |-> Coalesce(data.v.dataReferencia, None),
                    fonte |-> Coalesce(data.v.fonte, None),
                    totalAcoes |-> Coalesce(data.v.totalAcoes, Some(0)),
                    updateInProgress |-> updateInProgress])

-----------------------------------------------------------------------------
(* GET /api/options/:ticker *)

\* Variant: the underlying is compared on the 4-character prefix only.
matchesPrefix(o, ticker, today) ==
    LET obj == toUpperCase(Coalesce(o.ticker_objeto, Some(<<>>))[1]) IN
    slice0(obj, 4) = slice0(ticker, 4) /\ StrGeq(o.vencimento, today)
\* The filter of lines 124-127.
matches(o, ticker, today) ==
    LET obj == toUpperCase(Coalesce(o.ticker_objeto, Some(<<>>))[1]) IN
    obj = ticker /\ StrGeq(o.vencimento, today)

\* Variant: one vencimento, the first of both tipos, serves CALL and PUT.
nextExpiryOverall(matched, tipo) ==
    IF Len(matched) = 0 THEN <<>>
    ELSE LET vencimentos == {matched[i].vencimento : i \in 1..Len(matched)}
             proximo == CHOOSE v \in vencimentos :
                            \A w \in vencimentos : ~StrLess(w[1], v[1])
         IN  SelectSeq(matched, LAMBDA o : o.tipo = tipo /\ o.vencimento = proximo)

\* One round of the loop of lines 131-137: the records of one tipo at its
\* first vencimento in sorted order.
nextExpiry(matched, tipo) ==
    LET tipoOpts == SelectSeq(matched, LAMBDA o : o.tipo = tipo) IN
    IF Len(tipoOpts) = 0 THEN <<>>
    ELSE LET vencimentos == {tipoOpts[i].vencimento : i \in 1..Len(tipoOpts)}
             proximo == CHOOSE v \in vencimentos :
                            \A w \in vencimentos : ~StrLess(w[1], v[1])
         IN  SelectSeq(tipoOpts, LAMBDA o : o.vencimento = proximo)

\* (a.strike ?? 0) - (b.strike ?? 0)
compareStrike(a, b) == Coalesce(a.strike, Some(0))[1] - Coalesce(b.strike, Some(0))[1]

\* Array.prototype.sort is stable: x goes after every element it does not precede.
RECURSIVE insertSorted(_, _)
insertSorted(x, s) ==
    IF s = <<>> THEN <<x>>
    ELSE IF compareStrike(x, Head(s)) < 0 THEN <<x>> \o s
    ELSE <<Head(s)>> \o insertSorted(x, Tail(s))

RECURSIVE sortByStrike(_)
sortByStrike(s) ==
    IF s = <<>> THEN <<>>
    ELSE insertSorted(s[Len(s)], sortByStrike(SubSeq(s, 1, Len(s) - 1)))

\* The body of the try block, lines 119-142; Threw is an exception in it.
resolve(ticker, today) ==
    LET cotahist == JSONparse(cotahistFile) IN
    IF cotahist = Threw \/ cotahist = Null THEN Threw
    ELSE LET allOpts == Coalesce(cotahist.v.opcoes, Some(<<>>))[1]
             matched == SelectSeq(allOpts, LAMBDA o : matches(o, ticker, today))
             result  == nextExpiry(matched, "CALL") \o nextExpiry(matched, "PUT")
         IN  Arr(sortByStrike(result))

optionsHandler(rawTicker, today) ==
    LET ticker == toUpperCase(rawTicker)
        prefix == slice0(ticker, 4)
    IN  IF ~existsSync(cotahistFile) THEN Json(200, [opcoes |-> <<>>])
        ELSE LET r == resolve(ticker, today) IN
             IF r = Threw THEN Json(200, [opcoes |-> <<>>])
             ELSE Json(200, [opcoes |-> r.v])

-----------------------------------------------------------------------------
(* Sample data *)

AAAA3 == <<"A", "A", "A", "A", "3">>
aaaa3 == <<"a", "a", "a", "a", "3">>
AAAA4 == <<"A", "A", "A", "A", "4">>

Past == <<2025, 12, 19>>
Near == <<2026, 1, 16>>
Far  == <<2026, 2, 20>>

\* Values of new Date().toISOString().slice(0, 10)
Todays == {Near, <<2026, 2, 1>>}

\* Values of req.params.ticker
Tickers == {aaaa3, AAAA3, AAAA4}

Opt(obj, tipo, venc, strike) ==
    [ticker_objeto |-> obj, tipo |-> tipo, vencimento |-> venc, strike |-> strike]

RegularOpts ==
    {Opt(Some(aaaa3), tipo, Some(venc), strike) :
        tipo \in {"CALL", "PUT"}, venc \in {Past, Near, Far},
        strike \in {None, Some(0), Some(1)}}

\* Records on another share of the same company, with a property missing,
\* with a third tipo, with a negative strike.
OddOpts ==
    { Opt(Some(AAAA4), "CALL", Some(Near), Some(0)),
      Opt(Some(AAAA4), "PUT", Some(Far), Some(1)),
      Opt(None, "CALL", Some(Near), Some(1)),
      Opt(Some(AAAA3), "PUT", None, Some(1)),
      Opt(Some(AAAA3), "TERMO", Some(Near), Some(1)),
      Opt(Some(AAAA3), "CALL", Some(Far), Some(-1)) }

OptionRecords == RegularOpts \cup OddOpts

SeqsUpTo(S, n) == UNION {[1..k -> S] : k \in 0..n}

\* The scenario of the testable properties, with a contract on another share.
ScenarioOpcoes ==
    << Opt(Some(AAAA3), "CALL", Some(Near), Some(5)),
       Opt(Some(AAAA3), "CALL", Some(Far), Some(6)),
       Opt(Some(AAAA3), "PUT", Some(Near), Some(4)),
       Opt(Some(AAAA4), "CALL", Some(Near), Some(3)),
       Opt(Some(AAAA3), "PUT", Some(Past), Some(2)) >>

\* cotahist.json as the service meets it.
CotahistFiles ==
    {NoFile, Garbage, JsonFile(Null), JsonFile(Obj([opcoes |-> None])),
     JsonFile(Obj([opcoes |-> Some(ScenarioOpcoes)]))}

-----------------------------------------------------------------------------
(* The update script *)

files == <<stocksFile, cotahistFile>>

\* Variant: exec is given no timeout.
OutcomesNoTimeout == {"exit0", "nonzero"}

\* Outcomes of the child process as exec reports them: exit code 0, another
\* exit code, or killed when the timeout of line 68 expires.
Outcomes == {"exit0", "nonzero", "timeout"}

\* The err argument of the callback.
Err(outcome) == outcome # "exit0"

\* exec(...) of lines 66-70: one more child process, which will call back.
runUpdateScript(extraArgs, by) ==
    /\ procs' = procs \cup {[id |-> launched + 1, args |-> extraArgs, by |-> by]}
    /\ launched' = launched + 1

\* The script rewrites the snapshot files while it runs.
WriteStocks(f) ==
    /\ procs # {}
    /\ stocksFile' = f
    /\ last' = [ev |-> "write"]
    /\ UNCHANGED <<updateInProgress, procs, launched, accepted, cotahistFile, console>>

WriteCotahist(f) ==
    /\ procs # {}
    /\ cotahistFile' = f
    /\ last' = [ev |-> "write"]
    /\ UNCHANGED <<updateInProgress, procs, launched, accepted, stocksFile, console>>

-----------------------------------------------------------------------------
(* Read endpoints *)

Response(ev, r) == [ev |-> ev, status |-> r.status, body |-> r.body]

GetStocks ==
    /\ last' = Response("GET /api/stocks", Express(stocksHandler))
    /\ UNCHANGED <<updateInProgress, procs, launched, accepted, files, console>>

\* Variant: reading the status resets the flag.
GetStatusResetsFlag ==
    /\ last' = Response("GET /api/status", Express(statusHandler))
    /\ updateInProgress' = FALSE
    /\ UNCHANGED <<procs, launched, accepted, files, console>>

GetStatus ==
    /\ last' = Response("GET /api/status", Express(statusHandler))
    /\ UNCHANGED <<updateInProgress, procs, launched, accepted, files, console>>

GetOptions(rawTicker, today) ==
    /\ LET r == Express(optionsHandler(rawTicker, today)) IN
       last' = [ev |-> "GET /api/options", ticker |-> rawTicker, today |-> today,
                status |-> r.status, body |-> r.body]
    /\ UNCHANGED <<updateInProgress, procs, launched, accepted, files, console>>

-----------------------------------------------------------------------------
(* POST /api/update *)

\* Values of req.body?.maxPreco: absent, a string, a number.
MaxPrecoInputs ==
    {None, Some([t |-> "string", s |-> "5.0"]), Some([t |-> "number", s |-> "0"])}

Truthy(v) ==
    /\ v # None
    /\ ~(v[1].t = "number" /\ v[1].s = "0")
    /\ ~(v[1].t = "string" /\ v[1].s = "")

String(v) == v[1].s

Conflict == Json(409, [error |-> "Atualizacao ja em andamento"])
Started == Json(200, [success |-> TRUE, mensagem |-> "Atualizacao iniciada"])

\* The answer to a request whose body carried maxPrecoIn.
Answer(maxPrecoIn, r) ==
    [ev |-> "POST /api/update", maxPreco |-> maxPrecoIn, status |-> r.status, body |-> r.body]

\* Variant: the handler does not look at the flag.
PostUpdateNoGuard(maxPrecoIn) ==
    LET maxPreco == IF Truthy(maxPrecoIn) THEN String(maxPrecoIn) ELSE "10.0" IN
    /\ launched < MaxLaunches
    /\ updateInProgress' = TRUE
    /\ last' = Answer(maxPrecoIn, Started)
    /\ accepted' = accepted + 1
    /\ runUpdateScript(<<"--max-preco", maxPreco>>, "update")
    /\ UNCHANGED <<files, console>>

\* Variant: the handler waits for the script to end before it answers.
PostUpdateSync(maxPrecoIn) ==
    IF updateInProgress
    THEN /\ last' = Answer(maxPrecoIn, Conflict)
         /\ UNCHANGED <<updateInProgress, procs, launched, accepted, files, console>>
    ELSE /\ launched < MaxLaunches
         /\ updateInProgress' = FALSE
         /\ launched' = launched + 1
         /\ accepted' = accepted + 1
         /\ \E o \in Outcomes :
                /\ console' = IF Err(o) THEN "[update] Erro:" ELSE "[update] Concluido."
                /\ last' = Answer(maxPrecoIn,
                                    IF Err(o) THEN Json(500, [error |-> "falha"]) ELSE Started)
         /\ UNCHANGED <<procs, files>>

PostUpdate(maxPrecoIn) ==
    IF updateInProgress
    THEN /\ last' = Answer(maxPrecoIn, Conflict)
         /\ UNCHANGED <<updateInProgress, procs, launched, accepted, files, console>>
    ELSE LET maxPreco == IF Truthy(maxPrecoIn) THEN String(maxPrecoIn) ELSE "10.0" IN
         /\ launched < MaxLaunches
         /\ updateInProgress' = TRUE
         /\ last' = Answer(maxPrecoIn, Started)
         /\ accepted' = accepted + 1
         /\ runUpdateScript(<<"--max-preco", maxPreco>>, "update")
         /\ UNCHANGED <<files, console>>

\* Variant: the flag is cleared on success only.
updateCallbackKeepOnError(p, outcome, stdout) ==
    /\ updateInProgress' = Err(outcome)
    /\ console' = IF Err(outcome) THEN "[update] Erro:"
                  ELSE IF stdout # "" THEN stdout
                  ELSE "[update] Concluido."
    /\ procs' = procs \ {p}
    /\ UNCHANGED <<launched, accepted>>

\* Variant: a failure is not logged.
updateCallbackSilent(p, outcome, stdout) ==
    /\ updateInProgress' = FALSE
    /\ console' = IF stdout # "" /\ ~Err(outcome) THEN stdout ELSE "[update] Concluido."
    /\ procs' = procs \ {p}
    /\ UNCHANGED <<launched, accepted>>

\* Variant: a failed run is started again.
updateCallbackRetry(p, outcome, stdout) ==
    /\ console' = IF Err(outcome) THEN "[update] Erro:"
                  ELSE IF stdout # "" THEN stdout
                  ELSE "[update] Concluido."
    /\ IF Err(outcome)
       THEN /\ updateInProgress' = TRUE
            /\ procs' = (procs \ {p}) \cup {[id |-> launched + 1, args |-> p.args, by |-> p.by]}
            /\ launched' = launched + 1
            /\ UNCHANGED accepted
       ELSE /\ updateInProgress' = FALSE
            /\ procs' = procs \ {p}
            /\ UNCHANGED <<launched, accepted>>

\* The callback of lines 161-169.
updateCallback(p, outcome, stdout) ==
    /\ updateInProgress' = FALSE
    /\ console' = IF Err(outcome) THEN "[update] Erro:"
                  ELSE IF stdout # "" THEN stdout
                  ELSE "[update] Concluido."
    /\ procs' = procs \ {p}
    /\ UNCHANGED <<launched, accepted>>

-----------------------------------------------------------------------------
(* Scheduled update *)

\* Values of getUTCHours() and getUTCMinutes() at a tick.
Hours == {12, 13, 21, 22}
Minutes == {0, 20, 21, 59}

\* Variant: the upper end of the window is excluded.
isTradinghoursExclusive(utcH, utcM) ==
    LET total == utcH * 60 + utcM IN
    total >= 13 * 60 /\ total < 21 * 60 + 20

isTradinghours(utcH, utcM) ==
    LET total == utcH * 60 + utcM IN
    total >= 13 * 60 /\ total <= 21 * 60 + 20

\* Variant: the timer does not look at the flag.
TickNoBusyCheck(utcH, utcM) ==
    IF ~isTradinghours(utcH, utcM)
    THEN /\ last' = [ev |-> "tick", utcH |-> utcH, utcM |-> utcM, started |-> FALSE]
         /\ UNCHANGED <<updateInProgress, procs, launched, accepted, files, console>>
    ELSE /\ launched < MaxLaunches
         /\ console' = "[auto-update] Iniciando"
         /\ updateInProgress' = TRUE
         /\ accepted' = accepted + 1
         /\ runUpdateScript(<<>>, "auto-update")
         /\ last' = [ev |-> "tick", utcH |-> utcH, utcM |-> utcM, started |-> TRUE]
         /\ UNCHANGED files

\* The callback of setInterval, lines 196-205.
Tick(utcH, utcM) ==
    IF updateInProgress \/ ~isTradinghours(utcH, utcM)
    THEN /\ last' = [ev |-> "tick", utcH |-> utcH, utcM |-> utcM, started |-> FALSE]
         /\ UNCHANGED <<updateInProgress, procs, launched, accepted, files, console>>
    ELSE /\ launched < MaxLaunches
         /\ console' = "[auto-update] Iniciando"
         /\ updateInProgress' = TRUE
         /\ accepted' = accepted + 1
         /\ runUpdateScript(<<>>, "auto-update")
         /\ last' = [ev |-> "tick", utcH |-> utcH, utcM |-> utcM, started |-> TRUE]
         /\ UNCHANGED files

\* The callback of lines 200-204.
autoCallback(p, outcome) ==
    /\ updateInProgress' = FALSE
    /\ console' = IF Err(outcome) THEN "[auto-update] Falha:" ELSE "[auto-update] Concluido."
    /\ procs' = procs \ {p}
    /\ UNCHANGED <<launched, accepted>>

\* A child process ends and exec calls the callback it was given.
ProcExit(p, outcome, stdout) ==
    /\ p \in procs
    /\ outcome \in Outcomes
    /\ IF p.by = "update" THEN updateCallback(p, outcome, stdout) ELSE autoCallback(p, outcome)
    /\ last' = [ev |-> "callback", by |-> p.by, id |-> p.id, outcome |-> outcome]
    /\ UNCHANGED files

-----------------------------------------------------------------------------
(* The service *)

Init ==
    /\ updateInProgress = FALSE
    /\ procs = {}
    /\ launched = 0
    /\ accepted = 0
    /\ stocksFile \in StocksFiles
    /\ cotahistFile \in CotahistFiles
    /\ console = "API rodando"
    /\ last = [ev |-> "listen"]

Next ==
    \/ GetStocks
    \/ GetStatus
    \/ \E t \in Tickers, d \in Todays : GetOptions(t, d)
    \/ \E m \in MaxPrecoInputs : PostUpdate(m)
    \/ \E h \in Hours, m \in Minutes : Tick(h, m)
    \/ \E p \in procs, o \in {"exit0", "nonzero", "timeout"}, out \in {"", "ok"} :
          ProcExit(p, o, out)
    \/ \E f \in StocksFiles : WriteStocks(f)
    \/ \E f \in CotahistFiles : WriteCotahist(f)

Spec == Init /\ [][Next]_vars

\* The timer that exec arms with the timeout of line 68 fires for a child
\* process that has not ended, and the runtime then delivers the callback.
\* Nothing makes the script end by itself.
TimeoutKill == \E p \in procs : ProcExit(p, "timeout", "")

SpecLive == Spec /\ WF_vars(TimeoutKill)

\* The options endpoint over every derivatives snapshot of up to MaxOpts records.
InitResolver ==
    /\ updateInProgress = FALSE
    /\ procs = {}
    /\ launched = 0
    /\ accepted = 0
    /\ stocksFile = NoFile
    /\ cotahistFile \in {JsonFile(Obj([opcoes |-> Some(s)])) : s \in SeqsUpTo(OptionRecords, MaxOpts)}
    /\ console = "API rodando"
    /\ last = [ev |-> "listen"]

NextResolver == \E t \in Tickers, d \in Todays : GetOptions(t, d)

SpecResolver == InitResolver /\ [][NextResolver]_vars

-----------------------------------------------------------------------------
(* Properties *)

IsTrigger(e) == e.ev \in {"POST /api/update", "tick"}
IsBusyAnswer(e) == e.ev = "POST /api/update" /\ e.status = 409
IsStartedAnswer(e) == e.ev = "POST /api/update" /\ e.status = 200

\* C1: whatever the interleaving of manual triggers, scheduler ticks and
\* completion callbacks, at most one child process is in flight.
C1_SingleFlight == Cardinality(procs) <= 1

\* A second run is in flight, after the first one ended, and a manual
\* trigger has just been turned away.
C1_Witness ==
    /\ launched = 2
    /\ Cardinality(procs) = 1
    /\ IsBusyAnswer(last)

\* C2: a trigger that arrives while a run is in progress changes nothing: the
\* manual one is answered 409, no process is started and the flag, the
\* processes and the counters stay as they were; while the flag is set no
\* trigger is accepted.
C2_BusyTriggerNoEffect ==
    [][ /\ (updateInProgress /\ IsTrigger(last')) =>
              /\ last'.ev = "POST /api/update" => last'.status = 409
              /\ last'.ev = "tick" => ~last'.started
              /\ UNCHANGED <<updateInProgress, procs, launched, accepted, files, console>>
        /\ updateInProgress => accepted' = accepted
      ]_vars

\* A manual trigger has been answered 409 while the scheduled run started
\* before it is still in flight.
C2_Witness ==
    /\ IsBusyAnswer(last)
    /\ updateInProgress
    /\ \E p \in procs : p.by = "auto-update"

\* C3: when the child process of a run ends, with any outcome, the flag is
\* false afterwards, and a manual trigger handled right after the callback
\* is accepted, not answered 409.
C3_FlagClearedOnExit ==
    [][ /\ last'.ev = "callback" => ~updateInProgress'
        /\ (last.ev = "callback" /\ last'.ev = "POST /api/update") => last'.status = 200
      ]_vars

\* A run killed by the timeout has just called back.
C3_Witness ==
    /\ last.ev = "callback"
    /\ last.outcome = "timeout"
    /\ ~updateInProgress

\* C4: the success answer of an accepted manual trigger is sent while the
\* run it started is still in flight: the flag is set and the child
\* process has not ended.
C4_AnswerBeforeCompletion ==
    IsStartedAnswer(last) =>
        /\ updateInProgress
        /\ \E p \in procs : p.id = launched /\ p.by = "update"

C4_Witness == IsStartedAnswer(last) /\ launched = 2

ErrorLines == {"[update] Erro:", "[auto-update] Falha:"}

\* The properties a status answer may carry.
StatusFields ==
    { {"disponivel", "updateInProgress"},
      {"disponivel", "atualizadoEm", "dataReferencia", "fonte", "totalAcoes",
       "updateInProgress"} }

InWindow(h, m) ==
    \/ h \in 13..20
    \/ h = 21 /\ m <= 20

\* C6: a scheduler tick starts a scheduled run exactly when no run is in
\* progress and the UTC time of day is within 13:00-21:20, ends included;
\* any other tick starts nothing and leaves the flag as it was.
C6_TickInWindowOnly ==
    [][ last'.ev = "tick" =>
          IF ~updateInProgress /\ InWindow(last'.utcH, last'.utcM)
          THEN /\ updateInProgress'
               /\ launched' = launched + 1
               /\ procs' = procs \cup {[id |-> launched', args |-> <<>>, by |-> "auto-update"]}
          ELSE UNCHANGED <<updateInProgress, procs, launched>>
      ]_vars

\* A tick at 21:20, the last minute of the window, has started a run.
C6_Witness ==
    /\ last.ev = "tick"
    /\ last.utcH = 21 /\ last.utcM = 20
    /\ last.started
    /\ \E p \in procs : p.by = "auto-update" /\ p.id = launched

\* The equities snapshot can be read: the file exists and parses to an object.
Readable(f) == f.exists /\ f.text.t = "object"

\* C7: GET /api/status always answers 200; without a readable snapshot the
\* answer is exactly disponivel=false and the current flag; with one it is
\* disponivel=true, the snapshot metadata and the current flag.
C7_StatusNeverFails ==
    last.ev = "GET /api/status" =>
        /\ last.status = 200
        /\ IF ~Readable(stocksFile)
           THEN last.body = [disponivel |-> FALSE, updateInProgress |-> updateInProgress]
           ELSE /\ last.body.disponivel = TRUE
                /\ last.body.updateInProgress = updateInProgress
                /\ DOMAIN last.body \in StatusFields
                /\ \A k \in {"atualizadoEm", "dataReferencia", "fonte"} :
                      last.body[k] = stocksFile.text.v[k]
                /\ last.body.totalAcoes =
                      (IF stocksFile.text.v.totalAcoes = None THEN Some(0)
                       ELSE stocksFile.text.v.totalAcoes)

\* The status is read with no snapshot file while a run is in progress.
C7_Witness ==
    /\ last.ev = "GET /api/status"
    /\ ~stocksFile.exists
    /\ last.body.updateInProgress

IsRead(e) == e.ev \in {"GET /api/stocks", "GET /api/status", "GET /api/options"}

Unparsable(f) == f.exists /\ f.text.t = "garbage"

\* C8: a snapshot file that does not parse is answered like a missing one:
\* 404 by GET /api/stocks, disponivel=false by GET /api/status, an empty
\* list by GET /api/options; no read endpoint answers with an error status
\* of the server.
C8_CorruptAsMissing ==
    /\ IsRead(last) => last.status \in {200, 404}
    /\ (last.ev = "GET /api/stocks" /\ (~stocksFile.exists \/ Unparsable(stocksFile))) =>
          last.status = 404
    /\ (last.ev = "GET /api/status" /\ (~stocksFile.exists \/ Unparsable(stocksFile))) =>
          /\ last.status = 200
          /\ last.body = [disponivel |-> FALSE, updateInProgress |-> updateInProgress]
    /\ (last.ev = "GET /api/options" /\ (~cotahistFile.exists \/ Unparsable(cotahistFile))) =>
          /\ last.status = 200
          /\ last.body = [opcoes |-> <<>>]

\* The equities are read from a file that does not parse.
C8_Witness ==
    /\ last.ev = "GET /api/stocks"
    /\ Unparsable(stocksFile)
    /\ last.status = 404

\* C9: a process is started only by an accepted trigger: launches and
\* accepted triggers stay equal in number, every launch happens in the step
\* of a trigger accepted while idle, a 409 answer starts nothing then or
\* later, and a callback, whatever the outcome, starts nothing.
C9_LaunchOnlyOnAccept ==
    [][ /\ launched' = accepted'
        /\ launched' # launched =>
              /\ launched' = launched + 1
              /\ ~updateInProgress
              /\ IsStartedAnswer(last') \/ (last'.ev = "tick" /\ last'.started)
        /\ procs' \subseteq procs \/ launched' # launched
        /\ last'.ev = "callback" => launched' = launched /\ procs' \subseteq procs
      ]_vars

\* A failed run has called back and nothing is in flight.
C9_Witness ==
    /\ last.ev = "callback"
    /\ last.outcome \in {"nonzero", "timeout"}
    /\ procs = {}
    /\ launched = accepted
    /\ launched > 0

\* The day number of an ISO date.
DateNum(d) == d[1] * 10000 + d[2] * 100 + d[3]

\* C10: whatever the ticker, the derivatives snapshot and today, no contract
\* in the answer expires before today, and the underlying of each, in upper
\* case, is the whole requested ticker in upper case.
C10_FutureAndExactTicker ==
    last.ev = "GET /api/options" =>
        \A i \in DOMAIN last.body.opcoes :
            LET o == last.body.opcoes[i] IN
            /\ o.vencimento # None
            /\ DateNum(o.vencimento[1]) >= DateNum(last.today)
            /\ o.ticker_objeto # None
            /\ toUpperCase(o.ticker_objeto[1]) = toUpperCase(last.ticker)

\* A contract is returned from a snapshot that also holds a contract still
\* to expire on a share with the same 4-character prefix.
C10_Witness ==
    /\ last.ev = "GET /api/options"
    /\ Len(last.body.opcoes) = 1
    /\ \E i \in DOMAIN cotahistFile.text.v.opcoes[1] :
          LET o == cotahistFile.text.v.opcoes[1][i] IN
          /\ o.ticker_objeto = Some(AAAA4)
          /\ toUpperCase(last.ticker) = AAAA3
          /\ o.vencimento # None
          /\ DateNum(o.vencimento[1]) >= DateNum(last.today)

\* The snapshot the options endpoint has just read.
Snapshot == cotahistFile.text.v.opcoes[1]

Count(seq, r) == Cardinality({i \in DOMAIN seq : seq[i] = r})

\* A record of the snapshot on the requested share that has not expired.
Eligible(o, e) ==
    /\ o.ticker_objeto # None
    /\ toUpperCase(o.ticker_objeto[1]) = toUpperCase(e.ticker)
    /\ o.vencimento # None
    /\ DateNum(o.vencimento[1]) >= DateNum(e.today)

\* An eligible record of its tipo with no eligible record of that tipo before it.
Nearest(o, e) ==
    /\ o.tipo \in {"CALL", "PUT"}
    /\ Eligible(o, e)
    /\ \A j \in DOMAIN Snapshot :
          (Eligible(Snapshot[j], e) /\ Snapshot[j].tipo = o.tipo) =>
              DateNum(Snapshot[j].vencimento[1]) >= DateNum(o.vencimento[1])

\* C11: for CALL and for PUT separately the answer holds exactly the
\* eligible contracts of that tipo at the earliest expiration among the
\* eligible contracts of that tipo, each as often as the snapshot holds it;
\* so the CALLs share one date and the PUTs share one date.
C11_NearestPerTipo ==
    last.ev = "GET /api/options" =>
        /\ \A r \in OptionRecords :
              Count(last.body.opcoes, r) = (IF Nearest(r, last) THEN Count(Snapshot, r) ELSE 0)
        /\ \A i, j \in DOMAIN last.body.opcoes :
              last.body.opcoes[i].tipo = last.body.opcoes[j].tipo =>
                  last.body.opcoes[i].vencimento = last.body.opcoes[j].vencimento

\* The answer holds a CALL and a PUT that expire on different dates.
C11_Witness ==
    /\ last.ev = "GET /api/options"
    /\ \E i, j \in DOMAIN last.body.opcoes :
          /\ last.body.opcoes[i].tipo = "CALL"
          /\ last.body.opcoes[j].tipo = "PUT"
          /\ last.body.opcoes[i].vencimento # last.body.opcoes[j].vencimento

\* C12: the answer is non-decreasing in strike, and every record without a
\* strike comes before every record with one, whatever the strikes (zero
\* included) and the tipos.
C12_SortedAbsentFirst ==
    last.ev = "GET /api/options" =>
        \A i, j \in DOMAIN last.body.opcoes :
            LET a == last.body.opcoes[i]
                b == last.body.opcoes[j]
            IN  /\ (i < j /\ a.strike # None /\ b.strike # None) => a.strike[1] <= b.strike[1]
                /\ (a.strike = None /\ b.strike # None) => i < j

\* C13: the process of an accepted manual trigger gets the maximum price of
\* the request as its argument, or "10.0" when the request carries none;
\* the process of an accepted scheduled trigger gets no argument.
C13_MaxPriceArgument ==
    /\ IsStartedAnswer(last) =>
          \E p \in procs :
              /\ p.id = launched
              /\ p.args = <<"--max-preco",
                            IF last.maxPreco = None THEN "10.0" ELSE last.maxPreco[1].s>>
    /\ (last.ev = "tick" /\ last.started) =>
          \E p \in procs : p.id = launched /\ p.args = <<>>

\* C14: every accepted run ends: the child process exits by itself or is
\* killed when the timeout expires, so whenever the flag is set it is
\* cleared later and the service does not stay busy for ever.
C14_RunCompletes == updateInProgress ~> ~updateInProgress

\* A scheduled run has been ended by the timeout and nothing is in flight.
C14_Witness ==
    /\ last.ev = "callback"
    /\ last.by = "auto-update"
    /\ last.outcome = "timeout"
    /\ procs = {}
    /\ ~updateInProgress

\* C15: the flag is set only by an accepted trigger and cleared only by a
\* completion callback; GET /api/stocks, GET /api/status and GET
\* /api/options leave the flag as it is and start no process.
C15_ReadsLeaveFlag ==
    [][ /\ IsRead(last') => UNCHANGED <<updateInProgress, procs, launched, accepted>>
        /\ (~updateInProgress /\ updateInProgress') =>
              IsStartedAnswer(last') \/ (last'.ev = "tick" /\ last'.started)
        /\ (updateInProgress /\ ~updateInProgress') => last'.ev = "callback"
      ]_vars

\* The options are read while a run is in progress.
C15_Witness ==
    /\ last.ev = "GET /api/options"
    /\ updateInProgress
    /\ procs # {}

\* C16: between handler runs the flag is true exactly when one child
\* process is outstanding: with the flag false nothing is in flight, with
\* the flag true exactly one process is, and the updateInProgress of a
\* status answer tells whether a process is in flight.
C16_FlagMatchesProcess ==
    /\ updateInProgress <=> Cardinality(procs) = 1
    /\ ~updateInProgress => procs = {}
    /\ (last.ev = "GET /api/status" /\ last.status = 200) =>
          (last.body.updateInProgress <=> procs # {})

\* The status, read after a run has ended, reports no update in progress.
C16_Witness ==
    /\ last.ev = "GET /api/status"
    /\ launched > 0
    /\ procs = {}
    /\ ~last.body.updateInProgress

====
